---- MODULE Spec2Model ----
(***************************************************************************)
(* Speedle (src/app.js): the board registry, the per-board clock with      *)
(* pause/resume, the throttled persistence and the guess handling of the   *)
(* Vue component, as a state machine.                                      *)
(*                                                                         *)
(* Strings are sequences of one-character strings, so that keys, ids and   *)
(* seed strings are built by concatenation and words are indexed as the    *)
(* code indexes them.  Times are integer milliseconds.                     *)
(***************************************************************************)
EXTENDS Integers, Sequences, FiniteSets, TLC

\* ------------------------------------------------------------------ bounds
\* Wall-clock time advances in steps of Quantum ms, MaxTime steps at most.
Quantum == 400
MaxTime == 2
\* Accepted guesses per board (the code has no limit).
MaxGuesses == 2

\* ------------------------------------------------------- program constants
MIN_LEN == 3
MAX_LEN == 9
saveIntervalMs == 700

\* finalMs: null
Null == -1

\* ---------------------------------------------------------------- strings
Min(a, b) == IF a < b THEN a ELSE b
Max(a, b) == IF a > b THEN a ELSE b

LowerLetters ==
  <<"a","b","c","d","e","f","g","h","i","j","k","l","m",
    "n","o","p","q","r","s","t","u","v","w","x","y","z">>
UpperLetters ==
  <<"A","B","C","D","E","F","G","H","I","J","K","L","M",
    "N","O","P","Q","R","S","T","U","V","W","X","Y","Z">>

IndexIn(seq, x) == CHOOSE i \in 1..Len(seq) : seq[i] = x
Occurs(seq, x) == \E i \in 1..Len(seq) : seq[i] = x

\* /^[a-z]$/i
IsLetter(ch) == Occurs(LowerLetters, ch) \/ Occurs(UpperLetters, ch)
\* /^[a-z]+$/
IsLowerWord(w) == Len(w) > 0 /\ \A i \in 1..Len(w) : Occurs(LowerLetters, w[i])

toLowerCase(ch) ==
  IF Occurs(UpperLetters, ch) THEN LowerLetters[IndexIn(UpperLetters, ch)] ELSE ch
toUpperCase(ch) ==
  IF Occurs(LowerLetters, ch) THEN UpperLetters[IndexIn(LowerLetters, ch)] ELSE ch

\* String(w || "").trim().toLowerCase(); no character of a guess is white space
normaliseWord(w) == [i \in 1..Len(w) |-> toLowerCase(w[i])]

\* charCodeAt for the characters of mode keys and seed keys
Digits == <<"0","1","2","3","4","5","6","7","8","9">>
charCode(ch) ==
  IF Occurs(LowerLetters, ch) THEN 96 + IndexIn(LowerLetters, ch)
  ELSE IF Occurs(UpperLetters, ch) THEN 64 + IndexIn(UpperLetters, ch)
  ELSE IF Occurs(Digits, ch) THEN 47 + IndexIn(Digits, ch)
  ELSE IF ch = ":" THEN 58
  ELSE IF ch = "-" THEN 45
  ELSE IF ch = "." THEN 46
  ELSE 32

\* ------------------------------------------------- 32-bit integer arithmetic
\* An unsigned 32-bit value is <<hi, lo>>, two 16-bit halves (hi*65536 + lo).
W16 == 256 * 256
Word32 == (0..(W16 - 1)) \X (0..(W16 - 1))

RECURSIVE xorBits(_, _, _)
xorBits(x, y, n) ==
  IF n = 0 THEN 0
  ELSE (((x % 2) + (y % 2)) % 2) + 2 * xorBits(x \div 2, y \div 2, n - 1)

RECURSIVE orBits(_, _, _)
orBits(x, y, n) ==
  IF n = 0 THEN 0
  ELSE (IF (x % 2) = 1 \/ (y % 2) = 1 THEN 1 ELSE 0) + 2 * orBits(x \div 2, y \div 2, n - 1)

RECURSIVE pow2(_)
pow2(k) == IF k = 0 THEN 1 ELSE 2 * pow2(k - 1)

xor32(a, b) == <<xorBits(a[1], b[1], 16), xorBits(a[2], b[2], 16)>>
or32(a, b) == <<orBits(a[1], b[1], 16), orBits(a[2], b[2], 16)>>

\* a >>> k, 0 < k < 16
shr32(a, k) ==
  <<a[1] \div pow2(k), (a[2] \div pow2(k)) + (a[1] % pow2(k)) * pow2(16 - k)>>

\* (a + b) mod 2^32
add32(a, b) ==
  LET lo == a[2] + b[2]
  IN <<(a[1] + b[1] + (lo \div W16)) % W16, lo % W16>>

\* (x * y) mod 2^16 for 16-bit x, y, without leaving 31 bits
mulLow16(x, y) == ((((x \div 256) * y) % 256) * 256 + (x % 256) * y) % W16

\* Math.imul: the low 32 bits of a * b
imul(a, b) ==
  LET p == (a[2] \div 256) * b[2]     \* weight 2^8
      q == (a[2] % 256) * b[2]        \* weight 2^0
      lo == ((p % 256) * 256) + (q % W16)
      hi == (p \div 256) + (q \div W16) + (lo \div W16)
            + mulLow16(a[1], b[2]) + mulLow16(a[2], b[1])
  IN <<hi % W16, lo % W16>>

\* one round of the loop of hashStringToSeed: h ^= code; h = imul(h, 16777619)
hashRound == [h \in Word32, code \in 0..(W16 - 1) |-> imul(xor32(h, <<0, code>>), <<256, 403>>)]

\* h = 2166136261, then one round for each character
RECURSIVE hashFold(_, _, _)
hashFold(h, str, i) ==
  IF i > Len(str) THEN h
  ELSE hashFold(hashRound[h, charCode(str[i])], str, i + 1)

hashStringToSeed(str) == hashFold(<<33052, 40389>>, str, 1)

\* The first value of the generator mulberry32(seed) returns, as the 32-bit
\* numerator of value/2^32.  a += 0x6D2B79F5, then:
\*   t = imul(a ^ (a >>> 15), 1 | a)
mixA == [a \in Word32 |-> imul(xor32(a, shr32(a, 15)), or32(<<0, 1>>, a))]
\*   t ^= t + imul(t ^ (t >>> 7), 61 | t)
mixT == [t \in Word32 |-> xor32(t, add32(t, imul(xor32(t, shr32(t, 7)), or32(<<0, 61>>, t))))]
\*   (t ^ (t >>> 14)) >>> 0
mixOut == [t \in Word32 |-> xor32(t, shr32(t, 14))]

mulberry32(seed) == mixOut[mixT[mixA[add32(seed, <<27947, 31221>>)]]]

\* Math.floor((u / 2^32) * n) for a 32-bit u and a small n
scaleIndex(u, n) == ((u[1] * n) + ((u[2] * n) \div W16)) \div W16


\* --------------------------------------------------------------- feedback
\* pass 1 of makeFeedback: counts of the answer's letters not matched in place
RECURSIVE unmatched(_, _, _, _)
unmatched(g, a, ch, i) ==
  IF i > Len(a) THEN 0
  ELSE (IF (i > Len(g) \/ g[i] # a[i]) /\ a[i] = ch THEN 1 ELSE 0)
       + unmatched(g, a, ch, i + 1)

\* "good" at position i after pass 1
isGood(g, a, i) == i <= Len(a) /\ g[i] = a[i]

\* pass 2, left to right: used = number of "present" given to letter g[i] so far
RECURSIVE presentBefore(_, _, _, _)
presentBefore(g, a, ch, i) ==
  IF i = 0 THEN 0
  ELSE LET before == presentBefore(g, a, ch, i - 1)
       IN IF g[i] = ch /\ ~isGood(g, a, i) /\ unmatched(g, a, ch, 1) - before > 0
          THEN before + 1 ELSE before

\* makeFeedback whose pass 2 never takes a letter off the counts
makeFeedbackUncounted(guess, answer) ==
  [i \in 1..Len(guess) |->
     IF isGood(guess, answer, i) THEN "good"
     ELSE IF unmatched(guess, answer, guess[i], 1) > 0 THEN "present"
          ELSE "bad"]

\* makeFeedback in one pass: present for every letter the answer holds anywhere
makeFeedbackAnywhere(guess, answer) ==
  [i \in 1..Len(guess) |->
     IF isGood(guess, answer, i) THEN "good"
     ELSE IF \E j \in 1..Len(answer) : answer[j] = guess[i] THEN "present"
          ELSE "bad"]

makeFeedback(guess, answer) ==
  [i \in 1..Len(guess) |->
     IF isGood(guess, answer, i) THEN "good"
     ELSE IF unmatched(guess, answer, guess[i], 1)
             - presentBefore(guess, answer, guess[i], i - 1) > 0
          THEN "present"
          ELSE "bad"]

rank(fb) == CASE fb = "bad" -> 0 [] fb = "present" -> 1 [] fb = "good" -> 2

\* computeKeyStateFromGuesses: fold over the guesses, and over each word's letters
RECURSIVE keyStateFold(_, _, _, _)
keyStateFold(ks, guesses, gi, i) ==
  IF gi > Len(guesses) THEN ks
  ELSE IF i > Len(guesses[gi].word) THEN keyStateFold(ks, guesses, gi + 1, 1)
  ELSE LET ch == toUpperCase(guesses[gi].word[i])
           next == guesses[gi].fb[i]
       IN IF ch \notin DOMAIN ks \/ rank(next) > rank(ks[ch])
          THEN keyStateFold([k \in DOMAIN ks \cup {ch} |-> IF k = ch THEN next ELSE ks[k]],
                            guesses, gi, i + 1)
          ELSE keyStateFold(ks, guesses, gi, i + 1)

\* computeKeyStateFromGuesses keeping the feedback seen last for a letter
RECURSIVE keyStateFoldLast(_, _, _, _)
keyStateFoldLast(ks, guesses, gi, i) ==
  IF gi > Len(guesses) THEN ks
  ELSE IF i > Len(guesses[gi].word) THEN keyStateFoldLast(ks, guesses, gi + 1, 1)
  ELSE LET ch == toUpperCase(guesses[gi].word[i])
           next == guesses[gi].fb[i]
       IN keyStateFoldLast([k \in DOMAIN ks \cup {ch} |-> IF k = ch THEN next ELSE ks[k]],
                           guesses, gi, i + 1)

computeKeyStateLast(guesses) == keyStateFoldLast(<<>>, guesses, 1, 1)

computeKeyStateFromGuesses(guesses) == keyStateFold(<<>>, guesses, 1, 1)


\* ------------------------------------------------------------ formatting
\* formatMMSS: floor(ms/1000) seconds, never negative, as <<minutes, seconds>>
formatMMSS(ms) ==
  LET sec == Max(0, ms \div 1000)
  IN <<sec \div 60, sec % 60>>

\* ----------------------------------------------------------------- modes
daily == <<"d","a","i","l","y">>
short == <<"s","h","o","r","t">>
medium == <<"m","e","d","i","u","m">>
long == <<"l","o","n","g">>

MODES ==
  << [key |-> daily,  label |-> "Daily",  seedType |-> "daily"],
     [key |-> short,  label |-> "Short",  seedType |-> "5min"],
     [key |-> medium, label |-> "Medium", seedType |-> "5min"],
     [key |-> long,   label |-> "Long",   seedType |-> "5min"] >>

\* mode.rule(len)
rule(mode, len) ==
  CASE mode.key = daily  -> len >= 3 /\ len <= 9
    [] mode.key = short  -> len >= 3 /\ len <= 4
    [] mode.key = medium -> len >= 5 /\ len <= 6
    [] mode.key = long   -> len >= 7 /\ len <= 9

\* this.MODES.find(m => m.key === modeKey) || this.MODES[0]
findMode(modeKey) ==
  IF \E i \in 1..Len(MODES) : MODES[i].key = modeKey
  THEN MODES[CHOOSE i \in 1..Len(MODES) :
               MODES[i].key = modeKey /\ \A j \in 1..(i - 1) : MODES[j].key # modeKey]
  ELSE MODES[1]

\* The local date and the 5-minute block of the modelled session.
todayKeyLocal == <<"2","0","2","6","-","1","1","-","0","4">>
fiveMinuteBlockKeyLocal == todayKeyLocal \o <<" ","1","4",":","3","5">>

seedKeyForMode(m) ==
  IF m.seedType = "daily" THEN todayKeyLocal ELSE fiveMinuteBlockKeyLocal

\* rng() of pickSeededWord for the seed strings of the session, computed once
SeedStrings == {MODES[i].key \o <<":">> \o seedKeyForMode(MODES[i]) : i \in 1..Len(MODES)}
firstRandom == [str \in SeedStrings |-> mulberry32(hashStringToSeed(str))]

\* pickSeededWord falling back to "speed" for a pool of one word as well
pickSeededWordOrSpeed(seedStr, pool) ==
  IF Len(pool) <= 1 THEN <<"s","p","e","e","d">>
  ELSE pool[scaleIndex(firstRandom[seedStr], Len(pool)) + 1]

pickSeededWord(seedStr, pool) ==
  IF Len(pool) = 0 THEN <<"s","p","e","e","d">>
  ELSE pool[scaleIndex(firstRandom[seedStr], Len(pool)) + 1]

\* `speedle.board.${modeKey}.${seedKey}`
storageKeyBoard(modeKey, seedKey) ==
  <<"s","p","e","e","d","l","e",".","b","o","a","r","d",".">> \o modeKey \o <<".">> \o seedKey

\* `${modeKey}.${seedKey}`
boardId(modeKey, seedKey) == modeKey \o <<".">> \o seedKey

\* the storage key of the session's board of a mode
keyOf(modeKey) == storageKeyBoard(modeKey, seedKeyForMode(findMode(modeKey)))

\* ------------------------------------------------------------ word files
\* words.txt and answers.txt as loadWordFile returns them.
aab == <<"a","a","b">>
abb == <<"a","b","b">>
aba == <<"a","b","a">>
bab == <<"b","a","b">>
WordsFile == <<aab, abb, bab>>
AnswersFile == <<aab, abb, bab>>

\* What the player types on a board of a mode: prefixes of these words, letter
\* by letter.  The daily board is played (the answer, a listed word that is
\* not the answer, a word that is not listed), the other boards are only
\* looked at.
Played(modeKey) == IF modeKey = daily THEN {aab, abb, aba} ELSE {}
\* A listed word that is the answer of no board.
Raced == bab
\* What the player types in the race: the answer of the short board.
Finishing(modeKey) == IF modeKey = short THEN {abb} ELSE {}
\* Keys of the on-screen keyboard (upper case), the physical keyboard, and a
\* character that is no letter.
Keys == {"A", "b", "1"}
\* The mode buttons the player uses.
Buttons == {daily, short}

SeqToSet(seq) == {seq[i] : i \in 1..Len(seq)}

\* Array.prototype.filter
RECURSIVE filterSeq(_, _, _)
filterSeq(seq, mode, i) ==
  IF i > Len(seq) THEN <<>>
  ELSE (IF rule(mode, Len(seq[i])) THEN <<seq[i]>> ELSE <<>>) \o filterSeq(seq, mode, i + 1)

\* ------------------------------------------------------------------ state
VARIABLES
  wall,            \* wall-clock time, ms
  origin,          \* time origin of the page: performance.now() = wall - origin
  hidden,          \* document.hidden
  filesReady, guessSet, answers,
  boards,          \* id -> board
  currentBoardId,
  rafHandle,       \* TRUE: a handle is stored, FALSE: null
  rafPending,      \* an animation-frame callback is scheduled
  lastSaveAt,
  storage,         \* localStorage: key -> snapshot
  message, messageKind,
  messageTimer     \* TRUE: the auto-fade timeout is pending

vars == <<wall, origin, hidden, filesReady, guessSet, answers, boards, currentBoardId,
          rafHandle, rafPending, lastSaveAt, storage, message, messageKind, messageTimer>>

perfNow == wall - origin

\* The component's data, threaded through the methods below.
App ==
  [ guessSet |-> guessSet, answers |-> answers, boards |-> boards,
    currentBoardId |-> currentBoardId, rafHandle |-> rafHandle,
    rafPending |-> rafPending, lastSaveAt |-> lastSaveAt, storage |-> storage,
    message |-> message, messageKind |-> messageKind, messageTimer |-> messageTimer ]

Put(f, k, v) == [x \in DOMAIN f \cup {k} |-> IF x = k THEN v ELSE f[x]]

\* computed: this.boards[this.currentBoardId] || null
hasCurrentBoard(s) == s.currentBoardId \in DOMAIN s.boards
currentBoard(s) == s.boards[s.currentBoardId]

\* ---------------------------------------------------------------- messaging
setMessage(s, text, kind, autoFade) ==
  [s EXCEPT !.message = text, !.messageKind = kind, !.messageTimer = autoFade]

clearMessage(s) == [s EXCEPT !.message = <<>>, !.messageKind = "info"]

\* -------------------------------------------------------------- persistence
\* The object written by saveBoardToStorage (the ISO audit stamps left out).
toSave(b) ==
  [ modeKey |-> b.modeKey, modeLabel |-> b.modeLabel, seedKey |-> b.seedKey,
    answer |-> b.answer, status |-> b.status, elapsedMs |-> b.elapsedMs,
    finalMs |-> b.finalMs, currentGuess |-> b.currentGuess,
    hasStarted |-> b.hasStarted, guesses |-> b.guesses ]

\* saveBoardToStorage without the throttle window: every call writes
saveBoardUnthrottled(s, b, force, now) ==
  [s EXCEPT !.lastSaveAt = now,
            !.storage = Put(s.storage, storageKeyBoard(b.modeKey, b.seedKey), toSave(b))]

saveBoardToStorage(s, b, force, now) ==
  IF ~force /\ (now - s.lastSaveAt) < saveIntervalMs THEN s
  ELSE [s EXCEPT !.lastSaveAt = now,
                 !.storage = Put(s.storage, storageKeyBoard(b.modeKey, b.seedKey), toSave(b))]

\* saveBoardNow that leaves the throttle in force
saveBoardThrottled(s, b, now) == saveBoardToStorage(s, b, FALSE, now)

\* saveBoardNow writing the elapsed time in whole seconds
saveBoardSeconds(s, b, now) ==
  saveBoardToStorage([s EXCEPT !.lastSaveAt = 0],
                     [b EXCEPT !.elapsedMs = (b.elapsedMs \div 1000) * 1000], TRUE, now)

saveBoardNow(s, b, now) == saveBoardToStorage([s EXCEPT !.lastSaveAt = 0], b, TRUE, now)

null == [null |-> TRUE]

\* A record in localStorage that is not as saveBoardToStorage wrote it has the
\* field "wrong", which names what is damaged: "json" (the text does not parse,
\* or not to an object), or the field whose value has another type than the
\* written one.
isWrong(obj, field) == "wrong" \in DOMAIN obj /\ obj.wrong = field

loadBoardFromStorage(s, modeKey, seedKey) ==
  LET k == storageKeyBoard(modeKey, seedKey)
  IN IF k \notin DOMAIN s.storage THEN null
     ELSE LET obj == s.storage[k]
              guesses == IF isWrong(obj, "guesses") THEN <<>> ELSE obj.guesses
              currentGuess == IF isWrong(obj, "currentGuess") THEN <<>> ELSE obj.currentGuess
              \* Number(obj.elapsedMs) || 0
              elapsed == IF isWrong(obj, "elapsedMs") THEN 0 ELSE obj.elapsedMs
          IN IF isWrong(obj, "json") \/ isWrong(obj, "answer") THEN null
             ELSE IF Len(obj.answer) < MIN_LEN \/ Len(obj.answer) > MAX_LEN THEN null
             ELSE [ modeKey |-> obj.modeKey, modeLabel |-> obj.modeLabel,
                    seedKey |-> obj.seedKey, answer |-> obj.answer,
                    status |-> obj.status, elapsedMs |-> obj.elapsedMs,
                    finalMs |-> obj.finalMs, currentGuess |-> currentGuess,
                    hasStarted |-> IF isWrong(obj, "hasStarted")
                                   THEN elapsed > 0 \/ Len(guesses) > 0
                                   ELSE obj.hasStarted,
                    guesses |-> guesses,
                    keyState |-> computeKeyStateFromGuesses(guesses),
                    wrong |-> IF "wrong" \in DOMAIN obj THEN obj.wrong ELSE "" ]

\* ------------------------------------------------------------ timer control
stopTick(s) ==
  IF s.rafHandle THEN [s EXCEPT !.rafHandle = FALSE, !.rafPending = FALSE] ELSE s

startTick(s) == [stopTick(s) EXCEPT !.rafHandle = TRUE, !.rafPending = TRUE]

\* pauseBoard that stops the tick and saves, leaving elapsedMs as the last tick wrote it
pauseBoardStale(s, id, now) ==
  LET b == s.boards[id]
  IN IF b.status # "running" THEN s
     ELSE saveBoardNow(stopTick(s), b, now)

\* pauseBoard without the test of hasStarted
pauseBoardCounting(s, id, now) ==
  LET b == s.boards[id]
  IN IF b.status # "running" THEN s
     ELSE LET b1 == [b EXCEPT !.elapsedMs = now - b.startPerfTs]
              s1 == stopTick([s EXCEPT !.boards[id] = b1])
          IN saveBoardNow(s1, b1, now)

\* b is this.boards[id]
pauseBoard(s, id, now) ==
  LET b == s.boards[id]
  IN IF b.status # "running" THEN s
     ELSE LET b1 == [b EXCEPT !.elapsedMs = IF b.hasStarted THEN now - b.startPerfTs ELSE 0]
              s1 == stopTick([s EXCEPT !.boards[id] = b1])
          IN saveBoardNow(s1, b1, now)

\* resumeBoard that restarts the clock at the resume instead of continuing it
resumeBoardRestarting(s, id, now) ==
  LET b == s.boards[id]
  IN IF b.status # "running" THEN s
     ELSE LET b1 == [b EXCEPT !.startPerfTs = now]
              s1 == saveBoardToStorage([s EXCEPT !.boards[id] = b1], b1, TRUE, now)
          IN IF b1.hasStarted THEN startTick(s1) ELSE stopTick(s1)

\* resumeBoard that starts the tick of a board that has not started
resumeBoardTicking(s, id, now) ==
  LET b == s.boards[id]
  IN IF b.status # "running" THEN s
     ELSE LET b1 == [b EXCEPT !.startPerfTs = now - b.elapsedMs]
              s1 == saveBoardToStorage([s EXCEPT !.boards[id] = b1], b1, TRUE, now)
          IN startTick(s1)

resumeBoard(s, id, now) ==
  LET b == s.boards[id]
  IN IF b.status # "running" THEN s
     ELSE LET b1 == [b EXCEPT !.startPerfTs = now - b.elapsedMs]
              s1 == saveBoardToStorage([s EXCEPT !.boards[id] = b1], b1, TRUE, now)
          IN IF b1.hasStarted THEN startTick(s1) ELSE stopTick(s1)

\* ----------------------------------------------------------- board creation
poolForMode(s, modeKey) == filterSeq(s.answers, findMode(modeKey), 1)

\* the new board and the data after its save
createNewBoard(s, modeKey, seedKey, now) ==
  LET mode == findMode(modeKey)
      ans == pickSeededWord(modeKey \o <<":">> \o seedKey, poolForMode(s, modeKey))
      b == [ id |-> boardId(modeKey, seedKey), modeKey |-> modeKey,
             modeLabel |-> mode.label, seedKey |-> seedKey, answer |-> ans,
             status |-> "running", hasStarted |-> FALSE, startPerfTs |-> now,
             elapsedMs |-> 0, finalMs |-> Null, currentGuess |-> <<>>,
             guesses |-> <<>>, keyState |-> <<>> ]
  IN [b |-> b, s |-> saveBoardNow(s, b, now)]

\* the data after ensureBoard; the board it returns is boards[ensuredId(modeKey)]
ensuredId(modeKey) == boardId(modeKey, seedKeyForMode(findMode(modeKey)))

\* ensureBoard that schedules the tick of a loaded board that had started
ensureBoardLive(s, modeKey, now) ==
  LET mode == findMode(modeKey)
      seedKey == seedKeyForMode(mode)
      id == boardId(modeKey, seedKey)
      loaded == loadBoardFromStorage(s, modeKey, seedKey)
  IN IF id \in DOMAIN s.boards THEN s
     ELSE IF loaded # null
       THEN [startTick(s) EXCEPT !.boards =
               Put(s.boards, id,
                   [ id |-> id, modeKey |-> loaded.modeKey, modeLabel |-> loaded.modeLabel,
                     seedKey |-> loaded.seedKey, answer |-> loaded.answer,
                     status |-> loaded.status, hasStarted |-> loaded.hasStarted,
                     startPerfTs |-> 0,
                     elapsedMs |-> IF loaded.wrong = "elapsedMs" THEN 0 ELSE loaded.elapsedMs,
                     finalMs |-> loaded.finalMs, currentGuess |-> loaded.currentGuess,
                     guesses |-> loaded.guesses, keyState |-> loaded.keyState ])]
       ELSE LET c == createNewBoard(s, modeKey, seedKey, now)
            IN [c.s EXCEPT !.boards = Put(c.s.boards, id, c.b)]

ensureBoard(s, modeKey, now) ==
  LET mode == findMode(modeKey)
      seedKey == seedKeyForMode(mode)
      id == boardId(modeKey, seedKey)
      loaded == loadBoardFromStorage(s, modeKey, seedKey)
  IN IF id \in DOMAIN s.boards THEN s
     ELSE IF loaded # null
       THEN [s EXCEPT !.boards =
               Put(s.boards, id,
                   [ id |-> id, modeKey |-> loaded.modeKey, modeLabel |-> loaded.modeLabel,
                     seedKey |-> loaded.seedKey, answer |-> loaded.answer,
                     status |-> loaded.status, hasStarted |-> loaded.hasStarted,
                     startPerfTs |-> 0,
                     elapsedMs |-> IF loaded.wrong = "elapsedMs" THEN 0 ELSE loaded.elapsedMs,
                     finalMs |-> loaded.finalMs, currentGuess |-> loaded.currentGuess,
                     guesses |-> loaded.guesses, keyState |-> loaded.keyState ])]
       ELSE LET c == createNewBoard(s, modeKey, seedKey, now)
            IN [c.s EXCEPT !.boards = Put(c.s.boards, id, c.b)]

\* ------------------------------------------------------------ mode switching
showBoard(s, modeKey, now) ==
  LET s1 == IF hasCurrentBoard(s) /\ currentBoard(s).status = "running"
            THEN pauseBoard(s, s.currentBoardId, now) ELSE s
      s2 == ensureBoard(clearMessage(s1), modeKey, now)
      id == ensuredId(modeKey)
      s3 == [s2 EXCEPT !.currentBoardId = id]
      b == s3.boards[id]
  IN CASE b.status = "running" ->
            setMessage(resumeBoard(s3, id, now), <<"Length", Len(b.answer)>>, "info", FALSE)
       [] b.status = "solved" ->
            setMessage(s3, <<"Solved in", formatMMSS(b.finalMs), Len(b.guesses)>>,
                       "success", FALSE)
       [] b.status = "failed" ->
            setMessage(s3, <<"Finished", b.answer>>, "warn", FALSE)
       [] OTHER -> s3


\* -------------------------------------------------------------------- rules
\* isValidGuessForMode without the look-up in the list of guessable words
isValidAnyWord(s, word, modeKey) ==
  LET mode == findMode(modeKey)
  IN /\ IsLowerWord(word)
     /\ Len(word) >= MIN_LEN /\ Len(word) <= MAX_LEN
     /\ rule(mode, Len(word))

isValidGuessForMode(s, word, modeKey) ==
  LET mode == findMode(modeKey)
  IN /\ IsLowerWord(word)
     /\ Len(word) >= MIN_LEN /\ Len(word) <= MAX_LEN
     /\ rule(mode, Len(word))
     /\ word \in s.guessSet

\* finaliseSolved whose save is throttled
finaliseSolvedThrottled(s, id, now) ==
  LET b == s.boards[id]
      b1 == [b EXCEPT !.status = "solved", !.finalMs = Max(0, b.elapsedMs)]
      s1 == saveBoardToStorage(stopTick([s EXCEPT !.boards[id] = b1]), b1, FALSE, now)
  IN setMessage(s1, <<"Solved in", formatMMSS(b1.finalMs), Len(b1.guesses)>>,
                "success", FALSE)

finaliseSolved(s, id, now) ==
  LET b == s.boards[id]
      b1 == [b EXCEPT !.status = "solved", !.finalMs = Max(0, b.elapsedMs)]
      s1 == saveBoardNow(stopTick([s EXCEPT !.boards[id] = b1]), b1, now)
  IN setMessage(s1, <<"Solved in", formatMMSS(b1.finalMs), Len(b1.guesses)>>,
                "success", FALSE)

\* -------------------------------------------------------------------- input
\* submit, from the first accepted guess on: the guess g is valid
\* the accepted guess of submit, the first one not setting the clock anew
acceptGuessRunningOn(s, id, g, now) ==
  LET b == s.boards[id]
      b1 == IF b.hasStarted THEN b ELSE [b EXCEPT !.hasStarted = TRUE]
      s1 == IF b.hasStarted THEN s
            ELSE saveBoardNow(startTick([s EXCEPT !.boards[id] = b1]), b1, now)
      guesses == Append(b1.guesses, [word |-> g, fb |-> makeFeedback(g, b1.answer)])
      b2 == [b1 EXCEPT !.guesses = guesses,
                       !.keyState = computeKeyStateFromGuesses(guesses),
                       !.currentGuess = <<>>]
      s2 == saveBoardNow([s1 EXCEPT !.boards[id] = b2], b2, now)
  IN IF g = b2.answer THEN finaliseSolved(s2, id, now) ELSE s2

\* the accepted guess of submit, written over the last entry of guesses
acceptGuessReplacing(s, id, g, now) ==
  LET b == s.boards[id]
      b1 == IF b.hasStarted THEN b
            ELSE [b EXCEPT !.hasStarted = TRUE, !.startPerfTs = now, !.elapsedMs = 0]
      s1 == IF b.hasStarted THEN s
            ELSE saveBoardNow(startTick([s EXCEPT !.boards[id] = b1]), b1, now)
      guesses == Append(SubSeq(b1.guesses, 1, Len(b1.guesses) - 1),
                        [word |-> g, fb |-> makeFeedback(g, b1.answer)])
      b2 == [b1 EXCEPT !.guesses = guesses,
                       !.keyState = computeKeyStateFromGuesses(guesses),
                       !.currentGuess = <<>>]
      s2 == saveBoardNow([s1 EXCEPT !.boards[id] = b2], b2, now)
  IN IF g = b2.answer THEN finaliseSolved(s2, id, now) ELSE s2

acceptGuess(s, id, g, now) ==
  LET b == s.boards[id]
      \* start the clock on the first valid submitted guess
      b1 == IF b.hasStarted THEN b
            ELSE [b EXCEPT !.hasStarted = TRUE, !.startPerfTs = now, !.elapsedMs = 0]
      s1 == IF b.hasStarted THEN s
            ELSE saveBoardNow(startTick([s EXCEPT !.boards[id] = b1]), b1, now)
      guesses == Append(b1.guesses, [word |-> g, fb |-> makeFeedback(g, b1.answer)])
      b2 == [b1 EXCEPT !.guesses = guesses,
                       !.keyState = computeKeyStateFromGuesses(guesses),
                       !.currentGuess = <<>>]
      s2 == saveBoardNow([s1 EXCEPT !.boards[id] = b2], b2, now)
  IN IF g = b2.answer THEN finaliseSolved(s2, id, now) ELSE s2

submit(s, now) ==
  IF ~hasCurrentBoard(s) THEN s
  ELSE LET b == currentBoard(s)
           g == normaliseWord(b.currentGuess)
       IN IF b.status # "running" THEN s
          ELSE IF Len(g) # Len(b.answer)
            THEN setMessage(s, <<"Must be letters", Len(b.answer)>>, "warn", TRUE)
          ELSE IF ~isValidGuessForMode(s, g, b.modeKey)
            THEN setMessage(s, <<"Not in list">>, "warn", TRUE)
          ELSE acceptGuess(s, b.id, g, now)

\* addChar without the check of the board's status
addCharAnyStatus(s, ch) ==
  IF ~hasCurrentBoard(s) THEN s
  ELSE LET b == currentBoard(s)
       IN IF ~IsLetter(ch) THEN s
          ELSE IF Len(b.currentGuess) >= Len(b.answer) THEN s
          ELSE [s EXCEPT !.boards[b.id].currentGuess = Append(b.currentGuess, toLowerCase(ch))]

\* addChar without the test of the length of the current guess
addCharUnbounded(s, ch) ==
  IF ~hasCurrentBoard(s) THEN s
  ELSE LET b == currentBoard(s)
       IN IF b.status # "running" THEN s
          ELSE IF ~IsLetter(ch) THEN s
          ELSE [s EXCEPT !.boards[b.id].currentGuess = Append(b.currentGuess, toLowerCase(ch))]

addChar(s, ch) ==
  IF ~hasCurrentBoard(s) THEN s
  ELSE LET b == currentBoard(s)
       IN IF b.status # "running" THEN s
          ELSE IF ~IsLetter(ch) THEN s
          ELSE IF Len(b.currentGuess) >= Len(b.answer) THEN s
          ELSE [s EXCEPT !.boards[b.id].currentGuess = Append(b.currentGuess, toLowerCase(ch))]

backspace(s) ==
  IF ~hasCurrentBoard(s) THEN s
  ELSE LET b == currentBoard(s)
       IN IF b.status # "running" THEN s
          ELSE [s EXCEPT !.boards[b.id].currentGuess =
                           SubSeq(b.currentGuess, 1, Len(b.currentGuess) - 1)]

clearGuess(s) ==
  IF ~hasCurrentBoard(s) THEN s
  ELSE LET b == currentBoard(s)
       IN IF b.status # "running" THEN s
          ELSE [s EXCEPT !.boards[b.id].currentGuess = <<>>]

\* ------------------------------------------------------- the tick callback
\* loop, the callback startTick gives to requestAnimationFrame
loop(s, now) ==
  IF ~hasCurrentBoard(s) \/ currentBoard(s).status # "running"
  THEN [s EXCEPT !.rafPending = FALSE]
  ELSE LET b == currentBoard(s)
           b1 == [b EXCEPT !.elapsedMs = now - b.startPerfTs]
           s1 == saveBoardToStorage([s EXCEPT !.boards[b.id] = b1], b1, FALSE, now)
       IN [s1 EXCEPT !.rafHandle = TRUE, !.rafPending = TRUE]

\* ------------------------------------------------------- leave/pause hooks
\* isHidden: document.hidden when the visibilitychange event is delivered
handleVisibility(s, isHidden, now) ==
  IF ~hasCurrentBoard(s) THEN s
  ELSE IF currentBoard(s).status # "running" THEN s
  ELSE IF isHidden THEN pauseBoard(s, s.currentBoardId, now)
  ELSE resumeBoard(s, s.currentBoardId, now)

handleBeforeUnload(s, now) ==
  IF ~hasCurrentBoard(s) THEN s
  ELSE IF currentBoard(s).status # "running" THEN s
  ELSE pauseBoard(s, s.currentBoardId, now)

\* ------------------------------------------------------------------ actions
\* The component's data after construction, and an empty localStorage.
InitData ==
  /\ filesReady = FALSE /\ guessSet = {} /\ answers = <<>>
  /\ boards = <<>> /\ currentBoardId = <<>>
  /\ rafHandle = FALSE /\ rafPending = FALSE /\ lastSaveAt = 0
  /\ message = <<>> /\ messageKind = "info" /\ messageTimer = FALSE

Init ==
  /\ wall = 0 /\ origin = 0 /\ hidden = FALSE
  /\ storage = <<>>
  /\ InitData

\* the handler left the data s
Commit(s) ==
  /\ guessSet' = s.guessSet /\ answers' = s.answers
  /\ boards' = s.boards /\ currentBoardId' = s.currentBoardId
  /\ rafHandle' = s.rafHandle /\ rafPending' = s.rafPending
  /\ lastSaveAt' = s.lastSaveAt /\ storage' = s.storage
  /\ message' = s.message /\ messageKind' = s.messageKind
  /\ messageTimer' = s.messageTimer

\* time passes
Advance ==
  /\ wall + Quantum <= MaxTime * Quantum
  /\ wall' = wall + Quantum
  /\ UNCHANGED <<origin, hidden, filesReady, guessSet, answers, boards, currentBoardId,
                 rafHandle, rafPending, lastSaveAt, storage, message, messageKind,
                 messageTimer>>

\* mounted(), from the end of the await on: the word files have arrived
MountedLoaded ==
  /\ ~filesReady
  /\ filesReady' = TRUE
  /\ Commit(showBoard([App EXCEPT !.guessSet = SeqToSet(WordsFile),
                                  !.answers = AnswersFile],
                      daily, perfNow))
  /\ UNCHANGED <<wall, origin, hidden>>

\* a click on a mode button of the template
ClickMode(modeKey) ==
  /\ ~hidden
  /\ Commit(showBoard(App, modeKey, perfNow))
  /\ UNCHANGED <<wall, origin, hidden, filesReady>>

\* the typed character continues one of the words the player attempts, or the
\* call is one that addChar ignores
Typable(ch, words) ==
  IF ~hasCurrentBoard(App) THEN TRUE
  ELSE IF addChar(App, ch) = App THEN TRUE
  ELSE \E w \in words :
         LET g == Append(currentBoard(App).currentGuess, toLowerCase(ch))
         IN Len(g) <= Len(w) /\ SubSeq(w, 1, Len(g)) = g

AddChar(ch, words) ==
  /\ ~hidden
  /\ Typable(ch, IF hasCurrentBoard(App) THEN words[currentBoard(App).modeKey] ELSE {})
  /\ Commit(addChar(App, ch))
  /\ UNCHANGED <<wall, origin, hidden, filesReady>>

Backspace ==
  /\ ~hidden
  /\ Commit(backspace(App))
  /\ UNCHANGED <<wall, origin, hidden, filesReady>>

ClearGuess ==
  /\ ~hidden
  /\ Commit(clearGuess(App))
  /\ UNCHANGED <<wall, origin, hidden, filesReady>>

Submit ==
  /\ ~hidden
  /\ hasCurrentBoard(App) => Len(currentBoard(App).guesses) < MaxGuesses
  /\ Commit(submit(App, perfNow))
  /\ UNCHANGED <<wall, origin, hidden, filesReady>>

\* an animation frame: frames are not delivered to a hidden page
Tick ==
  /\ rafPending /\ ~hidden
  /\ Commit(loop(App, perfNow))
  /\ UNCHANGED <<wall, origin, hidden, filesReady>>

\* visibilitychange; the listener is added in mounted() after the files arrived
VisibilityChange ==
  /\ hidden' = ~hidden
  /\ IF filesReady THEN Commit(handleVisibility(App, ~hidden, perfNow))
     ELSE Commit(App)
  /\ UNCHANGED <<wall, origin, filesReady>>

\* beforeunload; the listener is added in mounted() after the files arrived
BeforeUnload ==
  /\ filesReady
  /\ Commit(handleBeforeUnload(App, perfNow))
  /\ UNCHANGED <<wall, origin, hidden, filesReady>>

\* the auto-fade timeout of setMessage fires
MessageTimeout ==
  /\ messageTimer
  /\ message' = <<>> /\ messageKind' = "info" /\ messageTimer' = FALSE
  /\ UNCHANGED <<wall, origin, hidden, filesReady, guessSet, answers, boards,
                 currentBoardId, rafHandle, rafPending, lastSaveAt, storage>>

\* The page goes away (closed, reloaded or killed) and is opened again: the
\* component is constructed anew, localStorage is kept.
Reload ==
  /\ origin' = wall
  /\ filesReady' = FALSE /\ guessSet' = {} /\ answers' = <<>>
  /\ boards' = <<>> /\ currentBoardId' = <<>>
  /\ rafHandle' = FALSE /\ rafPending' = FALSE /\ lastSaveAt' = 0
  /\ message' = <<>> /\ messageKind' = "info" /\ messageTimer' = FALSE
  /\ UNCHANGED <<wall, hidden, storage>>

\* every event but the editing of the current guess
Event ==
  \/ Advance
  \/ MountedLoaded
  \/ \E modeKey \in Buttons : ClickMode(modeKey)
  \/ Submit
  \/ Tick
  \/ VisibilityChange
  \/ BeforeUnload
  \/ MessageTimeout
  \/ Reload

Next ==
  \/ Event
  \/ \E ch \in Keys : AddChar(ch, [m \in Buttons |-> Played(m)])
  \/ Backspace
  \/ ClearGuess

Spec == Init /\ [][Next]_vars

\* Two boards racing.  The page is opened on the localStorage an earlier visit
\* left: the player had opened the daily and the short board, typed the word
\* Raced on each and left.  In this visit the player submits, and types nothing
\* but the answer of the short board.
typeWord(s, w) == addChar(addChar(addChar(s, w[1]), w[2]), w[3])

\* a snapshot as saveBoardToStorage writes it for a running board at 0 ms
snapshot(modeKey, answer, currentGuess, words) ==
  [ modeKey |-> modeKey, modeLabel |-> findMode(modeKey).label,
    seedKey |-> seedKeyForMode(findMode(modeKey)), answer |-> answer,
    status |-> "running", elapsedMs |-> 0, finalMs |-> Null,
    currentGuess |-> currentGuess, hasStarted |-> Len(words) > 0,
    guesses |-> [i \in 1..Len(words) |->
                   [word |-> words[i], fb |-> makeFeedback(words[i], answer)]] ]

\* the answer createNewBoard picks for a board of the mode from AnswersFile
answerOf(modeKey) ==
  pickSeededWord(modeKey \o <<":">> \o seedKeyForMode(findMode(modeKey)),
                 filterSeq(AnswersFile, findMode(modeKey), 1))

\* The localStorage an earlier visit left: showBoard(daily), Raced typed,
\* showBoard(short), Raced typed, beforeunload, all at 0 ms.  Both boards are
\* stored running, not started, with Raced as the current guess.
EarlierVisit ==
  [ storage |-> Put(Put(<<>>, keyOf(daily), snapshot(daily, answerOf(daily), Raced, <<>>)),
                    keyOf(short), snapshot(short, answerOf(short), Raced, <<>>)) ]

InitRace ==
  /\ wall = 0 /\ origin = 0 /\ hidden = FALSE
  /\ storage = EarlierVisit.storage
  /\ InitData

NextRace ==
  \/ Event
  \/ \E ch \in Keys : AddChar(ch, [m \in Buttons |-> Finishing(m)])

SpecRace == InitRace /\ [][NextRace]_vars

\* Playing freely.  The page has loaded a words.txt holding every word of three
\* letters over a and b and the words apple and plpel, and an answers.txt that
\* is one of PlayFiles; the daily board is shown.  The player types and
\* submits on the daily board; no time passes.
apple == <<"a","p","p","l","e">>
plpel == <<"p","l","p","e","l">>
Words3 == {<<x, y, z>> : x \in {"a","b"}, y \in {"a","b"}, z \in {"a","b"}}
PlayWords == Words3 \cup {apple, plpel}
PlayFiles == {<<w>> : w \in Words3 \cup {apple}} \cup {AnswersFile, <<apple, aab>>}
PlayKeys == {"a", "b", "p", "l", "e"}
PlayTyped(modeKey) == IF modeKey = daily THEN PlayWords ELSE {}

\* the data are s
Holds(s) ==
  /\ guessSet = s.guessSet /\ answers = s.answers
  /\ boards = s.boards /\ currentBoardId = s.currentBoardId
  /\ rafHandle = s.rafHandle /\ rafPending = s.rafPending
  /\ lastSaveAt = s.lastSaveAt /\ storage = s.storage
  /\ message = s.message /\ messageKind = s.messageKind
  /\ messageTimer = s.messageTimer

\* the data when mounted() has loaded the files and returned
Mounted(words, file) ==
  showBoard([ guessSet |-> words, answers |-> file, boards |-> <<>>,
              currentBoardId |-> <<>>, rafHandle |-> FALSE, rafPending |-> FALSE,
              lastSaveAt |-> 0, storage |-> <<>>, message |-> <<>>,
              messageKind |-> "info", messageTimer |-> FALSE ],
            daily, 0)

InitPlay ==
  /\ wall = 0 /\ origin = 0 /\ hidden = FALSE /\ filesReady = TRUE
  /\ \E file \in PlayFiles : Holds(Mounted(PlayWords, file))

NextPlay ==
  \/ \E ch \in PlayKeys : AddChar(ch, [m \in Buttons |-> PlayTyped(m)])
  \/ Backspace
  \/ Submit

SpecPlay == InitPlay /\ [][NextPlay]_vars

\* The player looks at the boards of all modes, whatever the answers file holds.
AllModes == {MODES[i].key : i \in 1..Len(MODES)}

NextModes == \E modeKey \in AllModes : ClickMode(modeKey)

SpecModes == InitPlay /\ [][NextModes]_vars

\* Damaged storage.  The page is opened on the localStorage of an earlier visit
\* (the daily board with one accepted guess, the short board with a typed
\* word), in which the record of the daily board has since been damaged, or
\* was written by another version of the page.
tooShort == <<"a","b">>
tooLong == <<"a","b","a","b","a","b","a","b","a","b">>

\* what the earlier visit left: showBoard(short), Raced typed, showBoard(daily),
\* Raced typed and submitted, beforeunload, all at 0 ms
PlayedVisit ==
  Put(Put(<<>>, keyOf(short), snapshot(short, abb, Raced, <<>>)),
      keyOf(daily), snapshot(daily, aab, <<>>, <<Raced>>))

withWrong(obj, field) ==
  [f \in DOMAIN obj \cup {"wrong"} |-> IF f = "wrong" THEN field ELSE obj[f]]

Damaged(obj) ==
  {withWrong(obj, field) : field \in {"json", "answer", "guesses", "currentGuess", "elapsedMs"}}
    \cup {[obj EXCEPT !.status = "paused"],
          [obj EXCEPT !.answer = tooShort],
          [obj EXCEPT !.answer = tooLong]}

InitCorrupt ==
  /\ wall = 0 /\ origin = 0 /\ hidden = FALSE
  /\ \E obj \in Damaged(PlayedVisit[keyOf(daily)]) \cup {PlayedVisit[keyOf(daily)]} :
       storage = Put(PlayedVisit, keyOf(daily), obj)
  /\ InitData

SpecCorrupt == InitCorrupt /\ [][Event]_vars

\* ================================================================ properties
\* the snapshot of the board of a mode in localStorage
isStored(b) == storageKeyBoard(b.modeKey, b.seedKey) \in DOMAIN storage
stored(b) == storage[storageKeyBoard(b.modeKey, b.seedKey)]

\* the clock of the board is live: it is the board the scheduled tick updates
isLive(id) == id = currentBoardId /\ rafHandle

\* the board is between a pause and its next resume
isPaused(id) ==
  /\ id \in DOMAIN boards
  /\ boards[id].status = "running" /\ boards[id].hasStarted
  /\ ~isLive(id)

\* ------------------------------------------------------------------------ C1
\* C1: a board that is paused (running, started, its clock not live) before and
\* after a step keeps its elapsedMs: between a pause and the next resume
\* elapsedMs does not change, a second pause with no resume between included.
\* The code violates this: pauseBoard computes elapsedMs from startPerfTs anew
\* at every pause.
C1_PausedClockStands ==
  [][\A id \in DOMAIN boards :
       (isPaused(id) /\ isPaused(id)') => boards'[id].elapsedMs = boards[id].elapsedMs]_vars

\* ------------------------------------------------------------------------ C2
\* what showBoard(B) does when the board A is current, running and started
C2_Switch(B) ==
  LET A == currentBoardId
      idB == ensuredId(B)
      now == perfNow
      s == showBoard(App, B, now)
      frozenB == IF idB \in DOMAIN boards THEN boards[idB].elapsedMs
                 ELSE IF keyOf(B) \in DOMAIN storage THEN storage[keyOf(B)].elapsedMs
                 ELSE 0
  IN /\ s.boards[A].elapsedMs = now - boards[A].startPerfTs
     /\ s.currentBoardId = idB
     /\ idB # A =>
          /\ s.boards[idB].elapsedMs = frozenB
          /\ ~s.boards[idB].hasStarted => s.boards[idB].elapsedMs = 0
     /\ s.boards[idB].status = "running" =>
          s.boards[idB].startPerfTs = now - s.boards[idB].elapsedMs

C2_State ==
  (hasCurrentBoard(App) /\ currentBoard(App).status = "running"
     /\ currentBoard(App).hasStarted)
    => \A B \in Buttons : C2_Switch(B)

C2_Step ==
  \A id \in DOMAIN boards :
    (id # currentBoardId /\ id \in DOMAIN boards' /\ id # currentBoardId')
      => boards'[id].elapsedMs = boards[id].elapsedMs

\* C2: showBoard(B), called while A is current, running and started, sets A's
\* elapsedMs to now - A.startPerfTs, and A's elapsedMs stays as it is while A
\* is not current; B's elapsedMs after the switch is the value B was frozen at
\* (0 for a board that has not started or is new), and B's clock continues
\* from that value: B.startPerfTs = now - B.elapsedMs.
C2_SwitchFreezesAndContinues == []C2_State /\ [][C2_Step]_vars

\* A switch has happened between two started boards: the board left behind is
\* frozen above 0, the board shown continues from its own frozen value above 0.
C2_Witness ==
  /\ hasCurrentBoard(App) /\ rafHandle
  /\ currentBoard(App).hasStarted /\ currentBoard(App).elapsedMs > 0
  /\ currentBoard(App).startPerfTs = perfNow - currentBoard(App).elapsedMs
  /\ \E id \in DOMAIN boards :
       /\ id # currentBoardId /\ boards[id].status = "running"
       /\ boards[id].hasStarted /\ boards[id].elapsedMs > 0

\* ------------------------------------------------------------------------ C3
C3_State ==
  /\ (rafHandle \/ rafPending) =>
       /\ hasCurrentBoard(App)
       /\ currentBoard(App).status = "running"
       /\ currentBoard(App).hasStarted
  /\ LET s == loop(App, perfNow)
     IN /\ \A id \in DOMAIN boards \ {currentBoardId} : s.boards[id] = boards[id]
        /\ DOMAIN s.boards = DOMAIN boards
        /\ (hasCurrentBoard(App) => currentBoard(App).status # "running") =>
             /\ s.boards = boards /\ s.storage = storage
             /\ s.lastSaveAt = lastSaveAt /\ s.currentBoardId = currentBoardId

C3_Step ==
  Tick => \A id \in DOMAIN boards \ {currentBoardId} :
            id \in DOMAIN boards' /\ boards'[id] = boards[id]

\* C3: whenever the tick callback is scheduled there is a current board, its
\* status is running and it has started; a tick changes no board but the
\* current one, and changes nothing when the current board is not running.
C3_OneLiveClock == []C3_State /\ [][C3_Step]_vars

\* A tick has updated the current board while another started, running board
\* is in memory.
C3_Witness ==
  /\ rafHandle /\ rafPending /\ hasCurrentBoard(App)
  /\ currentBoard(App).elapsedMs = perfNow - currentBoard(App).startPerfTs
  /\ currentBoard(App).elapsedMs >= Quantum
  /\ \E id \in DOMAIN boards :
       id # currentBoardId /\ boards[id].status = "running" /\ boards[id].hasStarted

\* ------------------------------------------------------------------------ C4
\* the state a solving submit leaves board id in
C4_Solved(s, id, now) ==
  LET b == s.boards[id]
      k == storageKeyBoard(b.modeKey, b.seedKey)
  IN /\ b.status = "solved"
     /\ b.finalMs # Null /\ b.finalMs = b.elapsedMs
     /\ ~s.rafHandle /\ ~s.rafPending
     /\ k \in DOMAIN s.storage /\ s.storage[k] = toSave(b)
     /\ s.storage[k].status = "solved" /\ s.storage[k].finalMs = b.finalMs
     /\ s.lastSaveAt = now

C4_State ==
  (/\ hasCurrentBoard(App)
   /\ currentBoard(App).status = "running"
   /\ normaliseWord(currentBoard(App).currentGuess) = currentBoard(App).answer
   /\ isValidGuessForMode(App, currentBoard(App).answer, currentBoard(App).modeKey))
    => C4_Solved(submit(App, perfNow), currentBoardId, perfNow)

C4_Step ==
  \A id \in DOMAIN boards :
    (/\ boards[id].status = "running" /\ id \in DOMAIN boards'
     /\ boards'[id].status = "solved")
      => C4_Solved(App, id, perfNow)'

\* C4: an accepted submit of the answer on the current running board leaves
\* the board solved with finalMs non-null and equal to its elapsedMs, the tick
\* stopped, and the stored snapshot written in that handler regardless of the
\* throttle, with status solved and the same finalMs.
C4_SolveFinalises == []C4_State /\ [][C4_Step]_vars

\* The current board has just been solved by its second guess, after its clock
\* had run.
C4_Witness ==
  /\ hasCurrentBoard(App)
  /\ currentBoard(App).status = "solved"
  /\ currentBoard(App).finalMs > 0
  /\ Len(currentBoard(App).guesses) = 2
  /\ lastSaveAt = perfNow /\ perfNow > 0

\* ------------------------------------------------------------------------ C5
\* the fields the claim speaks of
C5_Fields(b) == <<b.status, b.elapsedMs, b.finalMs, b.guesses, b.currentGuess>>

C5_State ==
  \A id \in DOMAIN boards :
    boards[id].status = "solved" =>
      /\ \A modeKey \in Buttons :
           C5_Fields(showBoard(App, modeKey, perfNow).boards[id]) = C5_Fields(boards[id])
      /\ pauseBoard(App, id, perfNow).boards[id] = boards[id]
      /\ resumeBoard(App, id, perfNow).boards[id] = boards[id]
      /\ id = currentBoardId =>
           /\ \A ch \in Keys : addChar(App, ch).boards = boards
           /\ backspace(App).boards = boards
           /\ clearGuess(App).boards = boards
           /\ submit(App, perfNow).boards = boards
           /\ loop(App, perfNow).boards = boards
           /\ \A isHidden \in BOOLEAN :
                handleVisibility(App, isHidden, perfNow).boards = boards
           /\ handleBeforeUnload(App, perfNow).boards = boards

C5_Step ==
  /\ \A id \in DOMAIN boards :
       (boards[id].status = "solved" /\ id \in DOMAIN boards')
         => C5_Fields(boards'[id]) = C5_Fields(boards[id])
  /\ \A k \in DOMAIN storage :
       storage[k].status = "solved" => (k \in DOMAIN storage' /\ storage'[k] = storage[k])
  /\ \A id \in DOMAIN boards' :
       (id \notin DOMAIN boards /\ isStored(boards'[id])
          /\ stored(boards'[id]).status = "solved")
         => C5_Fields(boards'[id]) = C5_Fields(stored(boards'[id]))

\* C5: solved is terminal.  No handler changes status, elapsedMs, finalMs,
\* guesses or currentGuess of a solved board, no step changes them in memory
\* or in the stored snapshot, and a solved snapshot is loaded with the same
\* values.
C5_SolvedIsTerminal == []C5_State /\ [][C5_Step]_vars

\* A board solved in an earlier visit has been loaded again and is shown.
C5_Witness ==
  /\ origin > 0 /\ hasCurrentBoard(App)
  /\ currentBoard(App).status = "solved"
  /\ currentBoard(App).finalMs > 0

\* ------------------------------------------------------------------------ C6
\* the stored snapshot of the mode's board is running and started, and the
\* board is not in memory
C6_Persisted(modeKey) ==
  /\ ensuredId(modeKey) \notin DOMAIN boards
  /\ keyOf(modeKey) \in DOMAIN storage
  /\ storage[keyOf(modeKey)].status = "running"
  /\ storage[keyOf(modeKey)].hasStarted

C6_State ==
  \A modeKey \in Buttons :
    C6_Persisted(modeKey) =>
      LET id == ensuredId(modeKey)
          persisted == storage[keyOf(modeKey)].elapsedMs
          s == ensureBoard(App, modeKey, perfNow)
          t == showBoard(App, modeKey, perfNow)
      IN /\ s.rafHandle = rafHandle /\ s.rafPending = rafPending
         /\ s.storage = storage
         /\ s.boards[id].status = "running" /\ s.boards[id].hasStarted
         /\ s.boards[id].elapsedMs = persisted
         /\ t.boards[id].elapsedMs = persisted
         /\ t.boards[id].startPerfTs = perfNow - persisted
         /\ t.rafHandle

C6_Step ==
  \A modeKey \in Buttons :
    (C6_Persisted(modeKey) /\ ensuredId(modeKey) \in DOMAIN boards')
      => /\ boards'[ensuredId(modeKey)].elapsedMs = storage[keyOf(modeKey)].elapsedMs
         /\ boards'[ensuredId(modeKey)].startPerfTs
              = perfNow - storage[keyOf(modeKey)].elapsedMs

\* C6: a board loaded by ensureBoard from a snapshot that is running and
\* started is paused: the load schedules no tick and gives the board the
\* persisted elapsedMs; the time between the save and the load is not added,
\* and the resume that follows continues from the persisted value.
C6_LoadedBoardIsPaused == []C6_State /\ [][C6_Step]_vars

\* A started board was saved, the page was opened again more than its
\* elapsedMs later, and the board was loaded and resumed.
C6_Witness ==
  /\ hasCurrentBoard(App) /\ rafHandle
  /\ currentBoard(App).hasStarted
  /\ currentBoard(App).elapsedMs > 0
  /\ origin > currentBoard(App).elapsedMs
  /\ currentBoard(App).startPerfTs = 0 - currentBoard(App).elapsedMs

\* ------------------------------------------------------------------------ C7
\* the data of a newly constructed component on the localStorage of this state
Restarted ==
  [ guessSet |-> {}, answers |-> <<>>, boards |-> <<>>, currentBoardId |-> <<>>,
    rafHandle |-> FALSE, rafPending |-> FALSE, lastSaveAt |-> 0, storage |-> storage,
    message |-> <<>>, messageKind |-> "info", messageTimer |-> FALSE ]

\* C7: in every state between two handlers, the board ensureBoard makes for a
\* new component from localStorage has the answer, status, hasStarted, guesses
\* and finalMs of the board in memory, and its elapsedMs too unless the clock
\* of the board is live.
C7_StorageAgrees ==
  \A id \in DOMAIN boards :
    LET b == boards[id]
        r == ensureBoard(Restarted, b.modeKey, 0).boards[id]
    IN /\ isStored(b)
       /\ r.answer = b.answer /\ r.status = b.status /\ r.hasStarted = b.hasStarted
       /\ r.guesses = b.guesses /\ r.finalMs = b.finalMs
       /\ ~isLive(id) => r.elapsedMs = b.elapsedMs

\* A board with an accepted guess went through the end of a session, and is
\* paused in this one.
C7_Witness ==
  /\ origin > 0
  /\ \E id \in DOMAIN boards :
       /\ isPaused(id) /\ Len(boards[id].guesses) = 1
       /\ boards[id].elapsedMs > 0

\* ------------------------------------------------------------------------ C8
\* C8: while the word files are not loaded, no step creates, loads, shows or
\* changes a board or writes to storage.  The code violates this: the mode
\* buttons call showBoard whatever filesReady is.
C8_NothingBeforeFilesReady ==
  [][(~filesReady /\ ~filesReady') => UNCHANGED <<boards, currentBoardId, storage>>]_vars

\* ------------------------------------------------------------------------ C9
C9_State ==
  /\ 0 <= lastSaveAt /\ lastSaveAt <= perfNow
  /\ \A id \in DOMAIN boards :
       LET b == boards[id]
           s == saveBoardToStorage(App, b, FALSE, perfNow)
       IN IF perfNow - lastSaveAt < saveIntervalMs
          THEN s.storage = storage /\ s.lastSaveAt = lastSaveAt
          ELSE s.storage = Put(storage, storageKeyBoard(b.modeKey, b.seedKey), toSave(b))
                 /\ s.lastSaveAt = perfNow

C9_Step ==
  /\ storage' # storage => lastSaveAt' = perfNow'
  /\ lastSaveAt' # lastSaveAt => (lastSaveAt' = perfNow' \/ (lastSaveAt' = 0 /\ boards' = <<>>))
  /\ (Tick /\ (storage' # storage \/ lastSaveAt' # lastSaveAt))
       => perfNow - lastSaveAt >= saveIntervalMs

\* C9: lastSaveAt is the time of the last write to storage of this page; a
\* save that is not forced writes only if saveIntervalMs have passed since
\* then, and a suppressed save leaves storage and lastSaveAt as they are; the
\* save of a tick, the only one not forced, writes only that late.
C9_ThrottledSave == []C9_State /\ [][C9_Step]_vars

\* A tick's save was suppressed: the clock in memory is ahead of the snapshot,
\* within the throttle window of the last write.
C9_Witness ==
  /\ hasCurrentBoard(App) /\ rafHandle /\ isStored(currentBoard(App))
  /\ currentBoard(App).elapsedMs = perfNow - currentBoard(App).startPerfTs
  /\ currentBoard(App).elapsedMs > stored(currentBoard(App)).elapsedMs
  /\ perfNow - lastSaveAt < saveIntervalMs

\* ----------------------------------------------------------------------- C10
\* the current guess is one submit rejects
C10_Rejected ==
  /\ hasCurrentBoard(App)
  /\ currentBoard(App).status = "running"
  /\ LET b == currentBoard(App)
         g == normaliseWord(b.currentGuess)
     IN \/ Len(g) # Len(b.answer)
        \/ g \notin guessSet
        \/ ~rule(findMode(b.modeKey), Len(g))

C10_State ==
  C10_Rejected =>
    LET s == submit(App, perfNow)
    IN /\ s.boards = boards /\ s.currentBoardId = currentBoardId
       /\ s.rafHandle = rafHandle /\ s.rafPending = rafPending
       /\ s.storage = storage /\ s.lastSaveAt = lastSaveAt
       /\ s.guessSet = guessSet /\ s.answers = answers
       /\ s.messageKind = "warn" /\ s.messageTimer

C10_Step ==
  (Submit /\ C10_Rejected)
    => UNCHANGED <<boards, currentBoardId, rafHandle, rafPending, storage, lastSaveAt>>

\* C10: a submit whose guess has the wrong length or is not in the list of
\* guessable words leaves the board, the tick and storage as they are; only
\* the message changes.
C10_RejectedSubmit == []C10_State /\ [][C10_Step]_vars

\* A word that is not in the list was submitted on a started board and
\* rejected.
C10_Witness ==
  /\ messageKind = "warn" /\ messageTimer /\ Len(message) = 1
  /\ hasCurrentBoard(App)
  /\ currentBoard(App).currentGuess = aba
  /\ currentBoard(App).hasStarted /\ rafHandle

\* ----------------------------------------------------------------------- C11
\* the stored record is one the claim calls invalid
C11_Invalid(obj) ==
  \/ "wrong" \in DOMAIN obj
  \/ obj.status \notin {"running", "solved", "failed"}
  \/ Len(obj.answer) < MIN_LEN \/ Len(obj.answer) > MAX_LEN

\* C11: as claimed - loadBoardFromStorage returns none when there is no record,
\* when the record does not parse to an object, when answer, guesses,
\* currentGuess, status or elapsedMs has the wrong type or value, or when the
\* answer's length is outside 3..9, and ensureBoard then makes a new board that
\* is running, not started and without guesses.  The code violates this: it
\* checks the answer only, repairs guesses and currentGuess, and takes status
\* and elapsedMs as they are.
C11_InvalidRecordIsAbsent ==
  \A modeKey \in Buttons :
    (keyOf(modeKey) \notin DOMAIN storage \/ C11_Invalid(storage[keyOf(modeKey)]))
      => /\ loadBoardFromStorage(App, modeKey, seedKeyForMode(findMode(modeKey))) = null
         /\ ensuredId(modeKey) \notin DOMAIN boards =>
              LET b == ensureBoard(App, modeKey, perfNow).boards[ensuredId(modeKey)]
              IN b.status = "running" /\ ~b.hasStarted /\ b.guesses = <<>>

\* every accepted guess "plpel" on a board whose answer is "apple" has feedback fb
C12_Example(fb) ==
  \A id \in DOMAIN boards :
    \A i \in 1..Len(boards[id].guesses) :
      boards[id].answer = apple /\ boards[id].guesses[i].word = plpel
        => boards[id].guesses[i].fb = fb

\* C12: the guess "plpel" against the answer "apple" gets the feedback
\* present, present, good, present, bad: pass 1 marks the p in the third place
\* as an exact match and leaves a, p, l, e unmatched once each; pass 2 gives
\* present to p, l and e from the left and finds no l left for the last place.
C12_FeedbackOfPlpel == C12_Example(<<"present", "present", "good", "present", "bad">>)

C12_Witness ==
  \E id \in DOMAIN boards :
    \E i \in 1..Len(boards[id].guesses) :
      boards[id].answer = apple /\ boards[id].guesses[i].word = plpel

\* C12: as claimed - the feedback is present, present, absent, correct, present
C12_FeedbackAsClaimed == C12_Example(<<"present", "present", "bad", "good", "present">>)

\* the positions of the word w that hold the letter c
C13_Places(w, c) == {i \in 1..Len(w) : w[i] = c}

\* C13: for every accepted guess on a board and every letter c, the positions
\* of the guess holding c that are marked good or present are no more than the
\* occurrences of c in the answer, and a position is marked good exactly when
\* the guess and the answer hold the same letter there.
C13_MarksWithinOccurrences ==
  \A id \in DOMAIN boards :
    \A n \in 1..Len(boards[id].guesses) :
      LET g  == boards[id].guesses[n].word
          fb == boards[id].guesses[n].fb
          a  == boards[id].answer
      IN /\ Len(g) = Len(a) /\ Len(fb) = Len(g)
         /\ \A i \in 1..Len(g) : fb[i] = "good" <=> g[i] = a[i]
         /\ \A c \in PlayKeys :
              Cardinality({i \in C13_Places(g, c) : fb[i] \in {"good", "present"}})
                <= Cardinality(C13_Places(a, c))

\* a guess repeats a letter of the answer more often than the answer holds it:
\* one of the repeats is marked bad although the answer holds the letter
C13_Witness ==
  \E id \in DOMAIN boards :
    \E n \in 1..Len(boards[id].guesses) :
      \E i \in 1..Len(boards[id].guesses[n].word) :
        /\ boards[id].guesses[n].fb[i] = "bad"
        /\ C13_Places(boards[id].answer, boards[id].guesses[n].word[i]) # {}

\* The largest pool the index of pickSeededWord is computed for.
MaxPool == 9
speed == <<"s","p","e","e","d">>

\* C14: the answer of every board is what pickSeededWord returns when called
\* again with the board's seed string and the pool of its mode; it is a word of
\* the pool when the pool is not empty and "speed" when it is; and for every
\* seed string of the session and every pool length up to MaxPool the index
\* floor(rng() * length) is in 0..length-1.
C14_PickIsMemberAndRepeatable ==
  /\ \A id \in DOMAIN boards :
       LET b == boards[id]
           pool == poolForMode(App, b.modeKey)
       IN /\ b.answer = pickSeededWord(b.modeKey \o <<":">> \o b.seedKey, pool)
          /\ pool # <<>> => b.answer \in SeqToSet(pool)
          /\ pool = <<>> => b.answer = speed
  /\ \A str \in SeedStrings :
       \A n \in 1..MaxPool : scaleIndex(firstRandom[str], n) \in 0..(n - 1)

\* boards picked from a pool of one word, from a pool of several, and from an
\* empty pool
C14_Witness ==
  /\ \E id \in DOMAIN boards : Len(poolForMode(App, boards[id].modeKey)) = 1
  /\ \E id \in DOMAIN boards :
       /\ Len(poolForMode(App, boards[id].modeKey)) > 1
       /\ boards[id].answer \in SeqToSet(poolForMode(App, boards[id].modeKey))
  /\ \E id \in DOMAIN boards :
       poolForMode(App, boards[id].modeKey) = <<>> /\ boards[id].answer = speed

\* the feedbacks the guesses hold for the key ch
C15_Seen(guesses, ch) ==
  {guesses[n].fb[i] : <<n, i>> \in
     {<<n, i>> \in (1..Len(guesses)) \X (1..MAX_LEN) :
        i <= Len(guesses[n].word) /\ toUpperCase(guesses[n].word[i]) = ch}}

C15_State ==
  \A id \in DOMAIN boards :
    LET b == boards[id]
        typed == UNION {{toUpperCase(b.guesses[n].word[i]) : i \in 1..Len(b.guesses[n].word)} :
                          n \in 1..Len(b.guesses)}
    IN /\ DOMAIN b.keyState = typed
       /\ \A ch \in typed :
            /\ b.keyState[ch] \in C15_Seen(b.guesses, ch)
            /\ \A fb \in C15_Seen(b.guesses, ch) : rank(fb) <= rank(b.keyState[ch])

C15_Step ==
  \A id \in DOMAIN boards \cap DOMAIN boards' :
    \A ch \in DOMAIN boards[id].keyState :
      /\ ch \in DOMAIN boards'[id].keyState
      /\ rank(boards'[id].keyState[ch]) >= rank(boards[id].keyState[ch])

\* C15: the keyState of every board maps each key of its guesses to the
\* highest-ranked feedback (bad < present < good) any guess holds for it, and
\* no step lowers the rank of a key: a key once good stays good.
C15_KeyStateNeverDowngrades == []C15_State /\ [][C15_Step]_vars

\* a key is good although the last guess holds a lower feedback for it
C15_Witness ==
  \E id \in DOMAIN boards :
    LET b == boards[id]
    IN /\ Len(b.guesses) = 2
       /\ \E ch \in DOMAIN b.keyState :
            /\ b.keyState[ch] = "good"
            /\ "good" \in C15_Seen(<<b.guesses[1]>>, ch)
            /\ "good" \notin C15_Seen(<<b.guesses[2]>>, ch)
            /\ C15_Seen(<<b.guesses[2]>>, ch) # {}

\* C16: for every board in memory, the snapshot saveBoardNow stores holds
\* neither keyState nor startPerfTs, and loadBoardFromStorage reads it back
\* with guesses, status, answer, currentGuess, elapsedMs and finalMs as they
\* are on the board and with a recomputed keyState equal to the board's.
C16_RoundTrip ==
  \A id \in DOMAIN boards :
    LET b == boards[id]
        saved == saveBoardNow(App, b, perfNow)
        snap == saved.storage[storageKeyBoard(b.modeKey, b.seedKey)]
        loaded == loadBoardFromStorage(saved, b.modeKey, b.seedKey)
    IN /\ "keyState" \notin DOMAIN snap /\ "startPerfTs" \notin DOMAIN snap
       /\ loaded # null
       /\ loaded.keyState = b.keyState
       /\ loaded.guesses = b.guesses /\ loaded.status = b.status
       /\ loaded.answer = b.answer /\ loaded.currentGuess = b.currentGuess
       /\ loaded.elapsedMs = b.elapsedMs /\ loaded.finalMs = b.finalMs

\* a solved board with two guesses and time on its clock
C16_Witness ==
  \E id \in DOMAIN boards :
    /\ boards[id].status = "solved" /\ boards[id].finalMs > 0
    /\ Len(boards[id].guesses) = 2 /\ boards[id].keyState # <<>>

\* The lengths of the runs and of the rests of the cycles tried.
C17_Durations == {0, Quantum, 5000, 2000}

\* the data after the current board is resumed at the time from and paused at
\* the time to
C17_Cycle(s, from, to) ==
  pauseBoard(resumeBoard(s, s.currentBoardId, from), s.currentBoardId, to)

\* From every state whose current board is started and paused: resumed now and
\* paused after run1 it has run1 more on its clock; resumed again after rest
\* and paused after run2 it has run1 + run2 more.
C17_State ==
  /\ \A id \in DOMAIN boards : boards[id].elapsedMs >= 0
  /\ (hasCurrentBoard(App) /\ isPaused(currentBoardId)) =>
       \A run1 \in C17_Durations, rest \in C17_Durations, run2 \in C17_Durations :
         LET e == boards[currentBoardId].elapsedMs
             s1 == C17_Cycle(App, perfNow, perfNow + run1)
             s2 == C17_Cycle(s1, perfNow + run1 + rest, perfNow + run1 + rest + run2)
         IN /\ s1.boards[currentBoardId].elapsedMs = e + run1
            /\ s2.boards[currentBoardId].elapsedMs = e + run1 + run2

\* Over a step that keeps a started board running: when its clock stops being
\* live the pause leaves elapsedMs = now - startPerfTs; when its clock becomes
\* live the resume leaves startPerfTs = now - elapsedMs; while the clock is
\* live startPerfTs stands, unless the step resumes the board again.  No step
\* lowers elapsedMs.
C17_Step ==
  \A id \in DOMAIN boards \cap DOMAIN boards' :
    LET b == boards[id]
        c == boards'[id]
    IN /\ c.elapsedMs >= b.elapsedMs
       /\ (b.status = "running" /\ b.hasStarted /\ c.status = "running") =>
            /\ (isLive(id) /\ ~isLive(id)') => c.elapsedMs = perfNow - b.startPerfTs
            /\ (~isLive(id) /\ isLive(id)') => c.startPerfTs = perfNow - c.elapsedMs
            /\ (isLive(id) /\ isLive(id)') =>
                 IF c.startPerfTs = b.startPerfTs THEN TRUE
                 ELSE c.startPerfTs = perfNow - c.elapsedMs

\* C17: elapsedMs accumulates over the cycles of resume and pause of a started
\* running board: a resume at time r with elapsedMs = e sets startPerfTs = r - e,
\* nothing moves startPerfTs until the pause, and the pause at time t sets
\* elapsedMs = t - startPerfTs = e + (t - r), so a run of 5000 ms and, after a
\* rest, a run of 2000 ms add 7000 ms; elapsedMs of a board is never negative
\* and no step lowers it.
C17_ElapsedAccumulates == []C17_State /\ [][C17_Step]_vars

\* a board started at 0 that ran for one quantum, was paused, was resumed one
\* quantum later and is paused again: its clock shows the one quantum it ran
C17_Witness ==
  \E id \in DOMAIN boards :
    /\ isPaused(id) /\ perfNow = 2 * Quantum
    /\ boards[id].elapsedMs = Quantum /\ boards[id].startPerfTs = Quantum

\* How long after the present state the board is paused or resumed.
C18_Waits == {0, Quantum, 5000}

C18_State ==
  /\ \A id \in DOMAIN boards :
       ~boards[id].hasStarted =>
         /\ boards[id].elapsedMs = 0
         /\ \A wait \in C18_Waits :
              LET paused == pauseBoard(App, id, perfNow + wait)
                  resumed == resumeBoard(App, id, perfNow + wait)
              IN /\ paused.boards[id].elapsedMs = 0
                 /\ resumed.boards[id].elapsedMs = 0
                 /\ boards[id].status = "running" =>
                      ~resumed.rafHandle /\ ~resumed.rafPending
  /\ (rafPending /\ hasCurrentBoard(App) /\ currentBoard(App).status = "running")
       => currentBoard(App).hasStarted

C18_Step ==
  Tick => \A id \in DOMAIN boards :
            ~boards[id].hasStarted => boards'[id].elapsedMs = 0

\* C18: a board that has not started has elapsedMs = 0 in every reachable
\* state; pausing it, however much later, leaves 0; resuming it leaves 0 and no
\* tick scheduled; no tick is pending for a running board that has not started
\* and no tick moves the elapsedMs of such a board.
C18_NotStartedStaysAtZero == []C18_State /\ [][C18_Step]_vars

\* the page was hidden a quantum or more after the current board, which has
\* not started, was resumed: the pause left 0 on its clock
C18_Witness ==
  /\ hidden /\ filesReady /\ hasCurrentBoard(App)
  /\ ~currentBoard(App).hasStarted /\ currentBoard(App).status = "running"
  /\ lastSaveAt = perfNow /\ perfNow >= currentBoard(App).startPerfTs + Quantum
  /\ currentBoard(App).elapsedMs = 0

C19_State ==
  \A id \in DOMAIN boards :
    rule(findMode(boards[id].modeKey), Len(boards[id].answer))

C19_Step ==
  \A id \in DOMAIN boards \cap DOMAIN boards' : boards'[id].answer = boards[id].answer

\* C19: as claimed - the answer of every board ensureBoard created has a length
\* the rule of the board's mode admits (daily 3..9, short 3..4, medium 5..6,
\* long 7..9), whatever the answers file holds, and no step changes the answer
\* of a board.  The code violates this: for a mode whose pool is empty
\* pickSeededWord returns "speed", five letters, also on a short or long board.
C19_AnswerFitsMode == []C19_State /\ [][C19_Step]_vars

C20_State ==
  \A id \in DOMAIN boards : boards[id].hasStarted <=> boards[id].guesses # <<>>

\* a step that starts a board is a submit that accepts its first guess; it
\* leaves the clock at 0, counting from the instant of the submit
C20_Step ==
  \A id \in DOMAIN boards \cap DOMAIN boards' :
    (~boards[id].hasStarted /\ boards'[id].hasStarted) =>
      /\ Submit /\ id = currentBoardId
      /\ Len(boards'[id].guesses) = 1
      /\ boards'[id].startPerfTs = perfNow
      /\ boards'[id].elapsedMs = 0
      /\ boards'[id].status = "running" => isLive(id)'

\* C20: the first accepted submit on a board that has not started sets
\* hasStarted and starts the clock from 0 at that instant (startPerfTs = now,
\* elapsedMs = 0, the tick scheduled), whatever time passed since the board was
\* created or resumed; in every reachable state hasStarted is true exactly
\* when guesses is not empty.
C20_FirstSubmitStartsClock == []C20_State /\ [][C20_Step]_vars

\* a board solved with its first guess, a quantum after the page was opened:
\* the clock started at the submit and shows 0
C20_Witness ==
  \E id \in DOMAIN boards :
    /\ boards[id].status = "solved" /\ Len(boards[id].guesses) = 1
    /\ boards[id].startPerfTs = Quantum /\ boards[id].finalMs = 0
    /\ origin = 0

\* C21: as claimed - over a step that solves a started board whose clock is
\* live, finalMs is left equal to the clock's sample at that instant, now -
\* startPerfTs, however long ago the last tick fired or the board was resumed.
\* The code violates this: finaliseSolved takes finalMs from elapsedMs, which
\* holds the sample of the last tick (or of the last resume), not of the submit.
C21_FinalIsCurrentSample ==
  [][\A id \in DOMAIN boards \cap DOMAIN boards' :
       (/\ boards[id].status = "running" /\ boards[id].hasStarted /\ isLive(id)
        /\ boards'[id].status = "solved")
         => boards'[id].finalMs = perfNow - boards[id].startPerfTs]_vars

C22_State ==
  \A id \in DOMAIN boards :
    LET b == boards[id]
    IN /\ \A n \in 1..Len(b.guesses) :
            /\ Len(b.guesses[n].word) = Len(b.answer)
            /\ Len(b.guesses[n].fb) = Len(b.answer)
       \* the stored snapshot, from which a later visit reads the board, has
       \* the same guesses
       /\ isStored(b) => stored(b).guesses = b.guesses

\* over a step the guesses of a board stand, or the step is a submit on the
\* current board that leaves them with one entry more, at the end: the
\* submitted word and its feedback
C22_Step ==
  \A id \in DOMAIN boards \cap DOMAIN boards' :
    LET old == boards[id].guesses
        new == boards'[id].guesses
    IN IF new = old THEN TRUE
       ELSE /\ Submit /\ id = currentBoardId
            /\ Len(new) = Len(old) + 1
            /\ SubSeq(new, 1, Len(old)) = old
            /\ new[Len(new)].word = normaliseWord(boards[id].currentGuess)
            /\ new[Len(new)].fb = makeFeedback(new[Len(new)].word, boards[id].answer)

\* C22: guesses of a board is append-only: a step changes it only by an
\* accepted submit that appends one entry at the end and leaves the earlier
\* entries as they were, and the word and the feedback of every entry are as
\* long as the answer.
C22_GuessesAppendOnly == []C22_State /\ [][C22_Step]_vars

\* a second guess was appended behind a first one
C22_Witness ==
  \E id \in DOMAIN boards :
    /\ Len(boards[id].guesses) = 2
    /\ boards[id].guesses[1].word # boards[id].guesses[2].word

\* What addChar is called with: letters of both cases, a digit, a blank, and
\* strings of more than one character.
C23_Chars == {"a", "B", "1", " ", "ab", "Enter"}

C23_State ==
  /\ \A id \in DOMAIN boards : Len(boards[id].currentGuess) <= Len(boards[id].answer)
  /\ hasCurrentBoard(App) =>
       LET b == currentBoard(App)
           erased == backspace(App).boards[b.id].currentGuess
       IN /\ \A ch \in C23_Chars :
               LET typed == addChar(App, ch).boards[b.id].currentGuess
               IN IF b.status = "running" /\ IsLetter(ch)
                     /\ Len(b.currentGuess) < Len(b.answer)
                  THEN typed = Append(b.currentGuess, toLowerCase(ch))
                  ELSE addChar(App, ch) = App
          /\ IF b.status = "running" /\ b.currentGuess # <<>>
             THEN erased = SubSeq(b.currentGuess, 1, Len(b.currentGuess) - 1)
             ELSE erased = b.currentGuess

\* a step that appends a guess leaves the current guess empty
C23_Step ==
  \A id \in DOMAIN boards \cap DOMAIN boards' :
    Len(boards'[id].guesses) > Len(boards[id].guesses) => boards'[id].currentGuess = <<>>

\* C23: the current guess of every board is never longer than its answer:
\* addChar changes nothing when the current guess has as many letters as the
\* answer or the character is not one letter, and appends the letter in lower
\* case otherwise; backspace removes the last letter and nothing else; an
\* accepted submit leaves the current guess empty.
C23_CurrentGuessFits == []C23_State /\ [][C23_Step]_vars

\* the current guess of the running current board is as long as the answer
C23_Witness ==
  /\ hasCurrentBoard(App) /\ ~hidden
  /\ currentBoard(App).status = "running"
  /\ Len(currentBoard(App).currentGuess) = Len(currentBoard(App).answer)

====
